---- MODULE Spec2Model ----
(***************************************************************************)
(* Deck-building engine of src/src/App.tsx: aspect selection, the card     *)
(* quantity ledger with its page / type quotas, the rank-cap handler with  *)
(* its pending confirmation, unlock-code redemption and share-code import. *)
(* Every UI callback is one atomic step: React commits the state a handler *)
(* sets before the next click is dispatched.                               *)
(***************************************************************************)
EXTENDS Integers, Sequences, FiniteSets, TLC

VARIABLES
    aspects,        \* useState<Aspect[]>   : set of aspect records (slugs unique)
    cards,          \* useState<Card[]>     : sequence of card records, CSV row order
    codes,          \* useState<Record<string,string>> : unlock-code table
    overrideCode,   \* import.meta.env: TRUE iff DEV build with VITE_OVERRIDE_CODE set
    rankCap,        \* useState<number>(1)
    basicsSelected, \* useState<string[]>(["focus"]), duplicate-free: kept as a set
    chosenAspects,  \* useState<string[]>([]),        duplicate-free: kept as a set
    unlocks,        \* useState<string[]>(["focus","study"])
    lostAsBasic,    \* useState(false)
    entries,        \* useState<Record<string,number>>({}): card id -> qty, absent = 0
    overrideAll,    \* useState(false)
    rankPending,    \* useState<{next, removals} | null>(null)
    capAttempt,     \* useState<SpellType | null>(null)
    capTimers,      \* timeouts armed by showCapAttempt and not yet fired or cleared
    capTimer,       \* capTimer.current: handle of the latest timeout (0 = null)
    roleFilter,     \* useState<Role[]>([])
    showUnlock,     \* useState(false): the UnlockModal overlay is open
    lastOp          \* history: the callback that ran last, its argument and outcome

catalogVars == <<aspects, cards, codes, overrideCode>>
deckVars    == <<rankCap, basicsSelected, chosenAspects, unlocks, lostAsBasic, entries, overrideAll>>
uiVars      == <<rankPending, capAttempt, capTimers, capTimer, roleFilter, showUnlock>>
vars        == <<catalogVars, deckVars, uiVars, lastOp>>

(***************************************************************************)
(* Program constants                                                       *)
(***************************************************************************)
PAGE_LIMIT == 30
HOLY_LIMIT == 4
LIGHT_LIMIT == 24
DARK_LIMIT == 2
ASTRAL_LIMIT == 7
SHADOW_LIMIT == 3
RANK_MAX == 5

SpellTypes == {"Holy", "Light", "Dark", "Astral", "Shadow"}
NoType == "none"
NoPending == [next |-> 0, removals |-> {}]

TYPE_ORDER(t) ==
    CASE t = "Holy" -> 5 [] t = "Light" -> 4 [] t = "Astral" -> 3
      [] t = "Shadow" -> 2 [] t = "Dark" -> 1 [] OTHER -> 0

TYPE_LIMITS(t) ==
    CASE t = "Holy" -> HOLY_LIMIT [] t = "Light" -> LIGHT_LIMIT [] t = "Dark" -> DARK_LIMIT

Max(a, b) == IF a >= b THEN a ELSE b
Min(a, b) == IF a <= b THEN a ELSE b

(***************************************************************************)
(* Bounds of the model                                                     *)
(***************************************************************************)
\* largest quantity a pasted (foreign) share code carries for a card
MaxForeignQty == 5
\* number of chained codes in one redeem input ("A AND B", "A,B")
MaxCodeParts == 2
\* highest rank button pressed in the aspect-selection runs
MaxRankChoice == 2

(***************************************************************************)
(* Catalogs (aspects.csv, cards.csv, unlock_codes.csv are data, not code)  *)
(***************************************************************************)
Asp(slug, name, basic, dark, special) ==
    [slug |-> slug, name |-> name, isBasic |-> basic, isDark |-> dark, isSpecial |-> special]

Crd(id, type, rank, maxCopies, aspect, name, roles) ==
    [id |-> id, type |-> type, rank |-> rank, maxCopies |-> maxCopies,
     aspect |-> aspect, name |-> name, roles |-> roles]

\* Deck catalog: a basic aspect with two Holy cards (6 copies against the Holy
\* limit of 4) and a special aspect with two Astral cards (8 copies against 7).
CatDeck ==
    [aspects |-> { Asp("focus", "Aspect of Focus", TRUE, FALSE, FALSE),
                   Asp("starlight", "Aspect of Starlight", FALSE, FALSE, TRUE) },
     cards |-> << Crd("h1", "Holy", 1, 4, "focus", 1, {"defensive"}),
                  Crd("h2", "Holy", 1, 2, "focus", 2, {"counter"}),
                  Crd("a1", "Astral", 1, 4, "starlight", 3, {}),
                  Crd("a2", "Astral", 1, 4, "starlight", 4, {}) >>,
     codes |-> [c \in {"STAR"} |-> "starlight"],
     overrideCode |-> FALSE]

\* Rank catalog: one basic aspect with cards of rank 1, 2 and 3.
CatRank ==
    [aspects |-> { Asp("focus", "Aspect of Focus", TRUE, FALSE, FALSE) },
     cards |-> << Crd("r1", "Holy", 1, 2, "focus", 1, {}),
                  Crd("r2", "Light", 2, 2, "focus", 2, {}),
                  Crd("r3", "Dark", 3, 1, "focus", 3, {}) >>,
     codes |-> [c \in {"ABC"} |-> "legend"],
     overrideCode |-> FALSE]

\* Aspect catalogs: a basic, a special and four further aspects d1, d2 (first
\* card at rank 2), d3 and legend (rank 1); `darks` are the dark-flagged ones.
CatAspects(darks) ==
    [aspects |-> { Asp("focus", "Aspect of Focus", TRUE, FALSE, FALSE),
                   Asp("starlight", "Aspect of Starlight", FALSE, FALSE, TRUE),
                   Asp("d1", "Aspect of Blood", FALSE, "d1" \in darks, FALSE),
                   Asp("d2", "Aspect of Bone", FALSE, "d2" \in darks, FALSE),
                   Asp("d3", "Aspect of Night", FALSE, "d3" \in darks, FALSE),
                   Asp("legend", "Aspect of Legend", FALSE, "legend" \in darks, FALSE) },
     cards |-> << Crd("f1", "Holy", 1, 1, "focus", 1, {}),
                  Crd("s1", "Astral", 1, 1, "starlight", 2, {}),
                  Crd("b1", "Dark", 2, 1, "d1", 3, {}),
                  Crd("b2", "Light", 2, 1, "d2", 4, {}),
                  Crd("b3", "Light", 1, 1, "d3", 5, {}),
                  Crd("l1", "Light", 1, 1, "legend", 6, {}) >>,
     codes |-> [c \in {"ALL"} |-> "*"],
     overrideCode |-> FALSE]

DarkChoices == { {"d1", "d2"}, {"d1", "d2", "d3"}, {"d1", "d2", "d3", "legend"} }

\* Eligibility catalogs: a basic aspect with a rank-1 card, an aspect whose two
\* cards have ranks r1 and r2, and an aspect that owns no card.
CatEligible(r1, r2) ==
    [aspects |-> { Asp("focus", "Aspect of Focus", TRUE, FALSE, FALSE),
                   Asp("legend", "Aspect of Legend", FALSE, FALSE, FALSE),
                   Asp("empty", "Aspect of Void", FALSE, FALSE, FALSE) },
     cards |-> << Crd("f1", "Holy", 1, 1, "focus", 1, {}),
                  Crd("l1", "Light", r1, 1, "legend", 2, {}),
                  Crd("l2", "Light", r2, 1, "legend", 3, {}) >>,
     codes |-> [c \in {"ABC"} |-> "legend"],
     overrideCode |-> FALSE]

\* the slugs aspectEligible is asked about: "ghost" is in neither table
EligibleSlugs == {"focus", "legend", "empty", "ghost"}

\* Toggle catalog: a basic and a standard aspect, each with a rank-1 and a
\* rank-2 card; the build defines the override code.
CatToggle ==
    [aspects |-> { Asp("focus", "Aspect of Focus", TRUE, FALSE, FALSE),
                   Asp("legend", "Aspect of Legend", FALSE, FALSE, FALSE) },
     cards |-> << Crd("f1", "Holy", 1, 1, "focus", 1, {}),
                  Crd("f2", "Light", 2, 1, "focus", 2, {}),
                  Crd("l1", "Light", 1, 1, "legend", 3, {}),
                  Crd("l2", "Dark", 2, 1, "legend", 4, {}) >>,
     codes |-> [c \in {"ABC"} |-> "legend"],
     overrideCode |-> TRUE]

\* Full-deck catalog: one basic aspect whose cards can fill every countable
\* type to its cap (Holy 4 + 1 spare, Light 24, Dark 2): 30 pages.
CatFull ==
    [aspects |-> { Asp("focus", "Aspect of Focus", TRUE, FALSE, FALSE) },
     cards |-> << Crd("h1", "Holy", 1, 4, "focus", 1, {}),
                  Crd("h2", "Holy", 1, 1, "focus", 2, {}),
                  Crd("l1", "Light", 1, 24, "focus", 3, {}),
                  Crd("k1", "Dark", 1, 2, "focus", 4, {}) >>,
     codes |-> [c \in {"ABC"} |-> "legend"],
     overrideCode |-> FALSE]

\* Override catalog: a build with the override code; the Holy cards (5 copies
\* against the limit of 4) and the Dark cards (3 against 2) exceed their caps
CatOverride ==
    [aspects |-> { Asp("focus", "Aspect of Focus", TRUE, FALSE, FALSE) },
     cards |-> << Crd("h1", "Holy", 1, 4, "focus", 1, {}),
                  Crd("h2", "Holy", 1, 1, "focus", 2, {}),
                  Crd("k1", "Dark", 1, 2, "focus", 3, {}),
                  Crd("k2", "Dark", 1, 1, "focus", 4, {}) >>,
     codes |-> [c \in {"ABC"} |-> "legend"],
     overrideCode |-> TRUE]

\* Page catalogs: focus can fill the 30 pages (Light 24, Holy 4 + 1 spare,
\* Dark 2); the Astral card m1 belongs to `owner`: to focus itself (a group
\* of mixed types) or to study (a group of Astral cards only)
CatPages(owner) ==
    [aspects |-> { Asp("focus", "Aspect of Focus", TRUE, FALSE, FALSE),
                   Asp("study", "Aspect of Study", TRUE, FALSE, FALSE) },
     cards |-> << Crd("h1", "Holy", 1, 4, "focus", 1, {}),
                  Crd("h2", "Holy", 1, 1, "focus", 2, {}),
                  Crd("l1", "Light", 1, 24, "focus", 3, {}),
                  Crd("k1", "Dark", 1, 2, "focus", 4, {}),
                  Crd("m1", "Astral", 1, 2, owner, 5, {}) >>,
     codes |-> [c \in {"ABC"} |-> "legend"],
     overrideCode |-> FALSE]

\* Lost catalog: a basic aspect and the aspect "lost", which its own code
\* unlocks and ENDLESS SECRETS turns into a basic
CatLost ==
    [aspects |-> { Asp("focus", "Aspect of Focus", TRUE, FALSE, FALSE),
                   Asp("lost", "Aspect of the Lost", FALSE, FALSE, FALSE) },
     cards |-> << Crd("f1", "Holy", 1, 1, "focus", 1, {}),
                  Crd("x1", "Light", 1, 1, "lost", 2, {}) >>,
     codes |-> [c \in {"LOSTKEY"} |-> "lost"],
     overrideCode |-> FALSE]

\* Bulk catalog: two basic aspects; focus owns two rank-1 Holy cards with
\* different roles and two rank-2 Light cards without a role, study one card.
CatBulk ==
    [aspects |-> { Asp("focus", "Aspect of Focus", TRUE, FALSE, FALSE),
                   Asp("study", "Aspect of Study", TRUE, FALSE, FALSE) },
     cards |-> << Crd("h1", "Holy", 1, 2, "focus", 1, {"defensive"}),
                  Crd("h2", "Holy", 1, 1, "focus", 2, {"counter"}),
                  Crd("l1", "Light", 2, 1, "focus", 3, {}),
                  Crd("l2", "Light", 2, 1, "focus", 4, {}),
                  Crd("s1", "Dark", 1, 1, "study", 5, {"defensive"}) >>,
     codes |-> [c \in {"ABC"} |-> "legend"],
     overrideCode |-> FALSE]

\* the role chips pressed in the bulk runs
BulkRoles == {"defensive", "counter"}

\* Share catalog: one basic aspect, one Holy and one Light card.
CatShare ==
    [aspects |-> { Asp("focus", "Aspect of Focus", TRUE, FALSE, FALSE) },
     cards |-> << Crd("h1", "Holy", 1, 4, "focus", 1, {}),
                  Crd("l2", "Light", 2, 2, "focus", 2, {}) >>,
     codes |-> [c \in {"ABC"} |-> "legend"],
     overrideCode |-> FALSE]

(***************************************************************************)
(* Derived values (recomputed on every render)                             *)
(***************************************************************************)
Slugs == {a.slug : a \in aspects}
CardSet == {cards[i] : i \in 1..Len(cards)}
CardIds == {c.id : c \in CardSet}
CardById(id) == CHOOSE c \in CardSet : c.id = id
CardIndex(c) == CHOOSE i \in 1..Len(cards) : cards[i] = c

RECURSIVE SumQty(_, _)
SumQty(e, ids) ==
    IF ids = {} THEN 0
    ELSE LET id == CHOOSE x \in ids : TRUE
         IN (IF e[id] > 0 THEN e[id] ELSE 0) + SumQty(e, ids \ {id})

\* qty of an entries map (entries[id] || 0)
Qty(e, id) == IF id \in DOMAIN e THEN e[id] ELSE 0

isSpecialAspect(slug) == \E a \in aspects : a.slug = slug /\ a.isSpecial

isBasicAspect(slug) ==
    (\E a \in aspects : a.slug = slug /\ a.isBasic) \/ (lostAsBasic /\ slug = "lost")

\* faulty variant: override mode does not widen the selection
selectedAspectSlugs_noOverride == basicsSelected \cup chosenAspects

selectedAspectSlugs ==
    IF overrideAll THEN Slugs ELSE basicsSelected \cup chosenAspects

\* MIN_RANK_BY_ASPECT has an entry only for aspects that own a card
HasMinRank(slug) == \E c \in CardSet : c.aspect = slug
MIN_RANK_BY_ASPECT(slug) ==
    CHOOSE r \in {c.rank : c \in {x \in CardSet : x.aspect = slug}} :
        \A c \in CardSet : c.aspect = slug => r <= c.rank

\* faulty variant: a slug without an entry in the map counts as eligible
aspectEligibleAt_missingOk(slug, cap) == ~HasMinRank(slug) \/ MIN_RANK_BY_ASPECT(slug) <= cap

aspectEligibleAt(slug, cap) == HasMinRank(slug) /\ MIN_RANK_BY_ASPECT(slug) <= cap
aspectEligible(slug) == aspectEligibleAt(slug, rankCap)

DARK_SLUGS == {a.slug : a \in {x \in aspects : x.isDark}}

unlocksSet ==
    IF overrideAll THEN Slugs
    ELSE unlocks \cup {a.slug : a \in {x \in aspects : isBasicAspect(x.slug)}}

\* faulty variant: the handlers keep the closures of the first render
renderedEntries_stale == [id \in CardIds |-> 0]

\* the entries the current render has handed to its closures (totalQty,
\* counts, the qty prop of a CardRow): React commits a handler's updates and
\* renders again before it dispatches the next click, so they are the
\* committed entries; the updater functions (prev => ...) read `entries`
renderedEntries == entries

\* totalQty: pages of the countable types
totalQtyOf(e) == SumQty(e, {c.id : c \in {x \in CardSet : x.type \notin {"Astral", "Shadow"}}})
totalQty == totalQtyOf(renderedEntries)

countsOf(e, t) == SumQty(e, {c.id : c \in {x \in CardSet : x.type = t}})
counts(t) == countsOf(renderedEntries, t)

Infinity == 1000000
remainingByType(t) ==
    IF t \in {"Astral", "Shadow"} THEN Infinity
    ELSE Max(0, TYPE_LIMITS(t) - counts(t))

locked(c) == c.aspect \notin unlocksSet /\ ~isBasicAspect(c.aspect)

\* roles of a card: the CSV column, else the keyword heuristic on its name;
\* the catalog records carry the resulting role set
passesRoleFilter(c) == roleFilter = {} \/ (roleFilter \cap c.roles) # {}

\* availableCards comparator inside one aspect: type desc, rank desc, name desc,
\* ties kept in catalog order (Array.prototype.sort is stable)
cardBefore(a, b) ==
    IF TYPE_ORDER(a.type) # TYPE_ORDER(b.type) THEN TYPE_ORDER(a.type) > TYPE_ORDER(b.type)
    ELSE IF a.rank # b.rank THEN a.rank > b.rank
    ELSE IF a.name # b.name THEN a.name > b.name
    ELSE CardIndex(a) < CardIndex(b)

RECURSIVE SortCards(_)
SortCards(S) ==
    IF S = {} THEN << >>
    ELSE LET first == CHOOSE c \in S : \A o \in S \ {c} : cardBefore(c, o)
         IN <<first>> \o SortCards(S \ {first})

availableCards ==
    {c \in CardSet : /\ c.aspect \in selectedAspectSlugs
                     /\ c.rank <= rankCap
                     /\ passesRoleFilter(c)}

\* groupedByAspect: one group per aspect that owns an available card
GroupSlugs == {c.aspect : c \in availableCards}
groupCards(slug) == SortCards({c \in availableCards : c.aspect = slug})

(***************************************************************************)
(* CardRow: the -, + and MAX buttons of an available card                  *)
(***************************************************************************)
countsTowardPages(c) == c.type \notin {"Astral", "Shadow"}
remainingSlots == Max(0, PAGE_LIMIT - totalQty)
remainingTypeSlots(c) == remainingByType(c.type)
noRoomTotal(c) == countsTowardPages(c) /\ remainingSlots <= 0
noRoomType(c) == countsTowardPages(c) /\ remainingTypeSlots(c) <= 0
addDisabled(c) == ~locked(c) /\ (noRoomTotal(c) \/ Qty(renderedEntries, c.id) >= c.maxCopies)

\* setQty(cardId, n)
setQty(e, id, n) == [e EXCEPT ![id] = Max(0, n)]

OpOut(op, arg, res, out) == [op |-> op, arg |-> arg, res |-> res, out |-> out]
Op(op, arg, res) == OpOut(op, arg, res, << >>)

\* showCapAttempt(t): clear the previous timeout, show t, arm a new timeout
\* window.setTimeout returns a handle that differs from the previous one
FreshTimer == IF capTimer = 1 THEN 2 ELSE 1

\* faulty variant: the previous timeout is left armed
showCapAttempt_noClear(t) ==
    /\ capAttempt' = t
    /\ capTimers' = capTimers \cup {FreshTimer}
    /\ capTimer' = FreshTimer

showCapAttempt(t) ==
    /\ capAttempt' = t
    /\ capTimers' = (capTimers \ {capTimer}) \cup {FreshTimer}
    /\ capTimer' = FreshTimer

noCapAttempt == UNCHANGED <<capAttempt, capTimers, capTimer>>

\* the timeout with handle h, armed by showCapAttempt, fires
CapTimeoutOf(h) ==
    /\ h \in capTimers
    /\ capTimers' = capTimers \ {h}
    /\ capAttempt' = NoType
    /\ lastOp' = Op("capTimeout", "", "cleared")
    /\ UNCHANGED <<catalogVars, deckVars, rankPending, capTimer, roleFilter, showUnlock>>

CapTimeout == \E h \in 1..2 : CapTimeoutOf(h)

\* "-" button
Dec(c) ==
    /\ ~showUnlock
    /\ c \in availableCards
    /\ LET qty == Qty(renderedEntries, c.id) IN
       IF qty <= 0
       THEN /\ lastOp' = Op("dec", c.id, "disabled")
            /\ UNCHANGED entries
       ELSE /\ entries' = setQty(entries, c.id, Max(0, qty - 1))
            /\ lastOp' = Op("dec", c.id, "ok")
    /\ UNCHANGED <<catalogVars, rankCap, basicsSelected, chosenAspects, unlocks,
                   lostAsBasic, overrideAll, uiVars>>

\* faulty variant: the handler alone, as if the button were never disabled
IncEffect_handlerOnly(c) ==
    LET qty == Qty(renderedEntries, c.id) IN
    IF locked(c)
    THEN /\ lastOp' = Op("inc", c.id, "noop")
         /\ UNCHANGED entries /\ noCapAttempt
    ELSE IF noRoomType(c)
    THEN /\ showCapAttempt(c.type)
         /\ lastOp' = Op("inc", c.id, "cap")
         /\ UNCHANGED entries
    ELSE IF addDisabled(c)
    THEN /\ lastOp' = Op("inc", c.id, "noop")
         /\ UNCHANGED entries /\ noCapAttempt
    ELSE /\ entries' = setQty(entries, c.id, Min(c.maxCopies, qty + 1))
         /\ lastOp' = Op("inc", c.id, "ok")
         /\ noCapAttempt

\* "+" button
IncEffect(c) ==
    LET qty == Qty(renderedEntries, c.id) IN
    IF locked(c) \/ noRoomTotal(c) \/ qty >= c.maxCopies
    THEN \* the button is disabled: the click is not delivered
         /\ lastOp' = Op("inc", c.id, "disabled")
         /\ UNCHANGED entries /\ noCapAttempt
    ELSE IF noRoomType(c)
    THEN /\ showCapAttempt(c.type)
         /\ lastOp' = Op("inc", c.id, "cap")
         /\ UNCHANGED entries
    ELSE IF addDisabled(c)
    THEN /\ lastOp' = Op("inc", c.id, "noop")
         /\ UNCHANGED entries /\ noCapAttempt
    ELSE /\ entries' = setQty(entries, c.id, Min(c.maxCopies, qty + 1))
         /\ lastOp' = Op("inc", c.id, "ok")
         /\ noCapAttempt

Inc(c) ==
    /\ ~showUnlock
    /\ c \in availableCards
    /\ IncEffect(c)
    /\ UNCHANGED <<catalogVars, rankCap, basicsSelected, chosenAspects, unlocks,
                   lostAsBasic, overrideAll, rankPending, roleFilter, showUnlock>>

\* faulty variant: MAX fills up to the page budget and ignores the type cap
SetMaxEffect_pageOnly(c) ==
    LET qty == Qty(renderedEntries, c.id)
        room == Max(0, remainingSlots)
    IN
    IF locked(c) \/ noRoomTotal(c)
    THEN /\ lastOp' = Op("max", c.id, "disabled")
         /\ UNCHANGED entries /\ noCapAttempt
    ELSE IF ~countsTowardPages(c)
    THEN /\ entries' = setQty(entries, c.id, c.maxCopies)
         /\ lastOp' = Op("max", c.id, "ok")
         /\ noCapAttempt
    ELSE /\ entries' = setQty(entries, c.id, Min(c.maxCopies, qty + room))
         /\ lastOp' = Op("max", c.id, "ok")
         /\ noCapAttempt

\* "MAX" button
SetMaxEffect(c) ==
    LET qty == Qty(renderedEntries, c.id)
        roomTotal == Max(0, remainingSlots)
        roomType == Max(0, remainingTypeSlots(c))
        room == Min(roomTotal, roomType)
    IN
    IF locked(c) \/ noRoomTotal(c)
    THEN /\ lastOp' = Op("max", c.id, "disabled")
         /\ UNCHANGED entries /\ noCapAttempt
    ELSE IF ~countsTowardPages(c)
    THEN /\ entries' = setQty(entries, c.id, c.maxCopies)
         /\ lastOp' = Op("max", c.id, "ok")
         /\ noCapAttempt
    ELSE IF room <= 0
    THEN /\ IF roomType <= 0 THEN showCapAttempt(c.type) ELSE noCapAttempt
         /\ lastOp' = Op("max", c.id, "cap")
         /\ UNCHANGED entries
    ELSE /\ entries' = setQty(entries, c.id, Min(c.maxCopies, qty + room))
         /\ lastOp' = Op("max", c.id, "ok")
         /\ noCapAttempt

SetMax(c) ==
    /\ ~showUnlock
    /\ c \in availableCards
    /\ SetMaxEffect(c)
    /\ UNCHANGED <<catalogVars, rankCap, basicsSelected, chosenAspects, unlocks,
                   lostAsBasic, overrideAll, rankPending, roleFilter, showUnlock>>

(***************************************************************************)
(* PICK ALL / REMOVE ALL of an aspect group                                *)
(***************************************************************************)
pickDisabled(slug) ==
    LET g == {c \in availableCards : c.aspect = slug}
        pageCapReached == totalQty >= PAGE_LIMIT
        groupHasCountable == \E c \in g : c.type \notin {"Astral", "Shadow"}
        allAstral == \A c \in g : c.type = "Astral"
        allShadow == \A c \in g : c.type = "Shadow"
        allAtMax == \A c \in g : Qty(renderedEntries, c.id) >= c.maxCopies
        typeCapReached == IF allAstral THEN counts("Astral") >= ASTRAL_LIMIT
                          ELSE IF allShadow THEN counts("Shadow") >= SHADOW_LIMIT
                          ELSE FALSE
    IN IF allAstral \/ allShadow THEN allAtMax \/ typeCapReached
       ELSE pageCapReached /\ groupHasCountable

\* one iteration of the loop over group.cards; acc carries next, pages,
\* typeRoom, astralRoom and shadowRoom
pickStep(acc, card) ==
    LET current == Qty(acc.next, card.id)
        add == Max(0, card.maxCopies - current)
    IN
    IF locked(card) THEN acc
    ELSE IF add <= 0 THEN acc
    ELSE IF card.type = "Astral" THEN
        IF acc.astralRoom <= 0 THEN acc
        ELSE LET n == Min(add, acc.astralRoom)
             IN [acc EXCEPT !.next = [@ EXCEPT ![card.id] = current + n],
                            !.astralRoom = @ - n]
    ELSE IF card.type = "Shadow" THEN
        IF acc.shadowRoom <= 0 THEN acc
        ELSE LET n == Min(add, acc.shadowRoom)
             IN [acc EXCEPT !.next = [@ EXCEPT ![card.id] = current + n],
                            !.shadowRoom = @ - n]
    ELSE LET roomTotal == Max(0, PAGE_LIMIT - acc.pages)
             roomType == Max(0, acc.typeRoom[card.type])
             room == Min(roomTotal, roomType)
             n == Min(add, room)
         IN IF room <= 0 THEN acc
            ELSE [acc EXCEPT !.pages = @ + n,
                             !.typeRoom = [@ EXCEPT ![card.type] = Max(0, @ - n)],
                             !.next = [@ EXCEPT ![card.id] = current + n]]

RECURSIVE pickLoop(_, _)
pickLoop(acc, seq) ==
    IF seq = << >> THEN acc ELSE pickLoop(pickStep(acc, Head(seq)), Tail(seq))

pickAllResult(slug) ==
    pickLoop([next |-> entries,
              pages |-> totalQty,
              typeRoom |-> [t \in SpellTypes |-> remainingByType(t)],
              astralRoom |-> Max(0, ASTRAL_LIMIT - counts("Astral")),
              shadowRoom |-> Max(0, SHADOW_LIMIT - counts("Shadow"))],
             groupCards(slug)).next

PickAll(slug) ==
    /\ ~showUnlock
    /\ slug \in GroupSlugs
    /\ IF pickDisabled(slug)
       THEN /\ lastOp' = Op("pickAll", slug, "disabled")
            /\ UNCHANGED entries
       ELSE /\ entries' = pickAllResult(slug)
            /\ lastOp' = Op("pickAll", slug, "ok")
    /\ UNCHANGED <<catalogVars, rankCap, basicsSelected, chosenAspects, unlocks,
                   lostAsBasic, overrideAll, uiVars>>

allZero(slug) == \A c \in availableCards : c.aspect = slug => Qty(renderedEntries, c.id) <= 0

\* faulty variant: takes one copy off every card of the group
removeAllResult_one(slug) ==
    [id \in DOMAIN entries |->
        IF \E c \in availableCards : c.aspect = slug /\ c.id = id
        THEN Max(0, entries[id] - 1) ELSE entries[id]]

removeAllResult(slug) ==
    [id \in DOMAIN entries |->
        IF \E c \in availableCards : c.aspect = slug /\ c.id = id THEN 0 ELSE entries[id]]

RemoveAll(slug) ==
    /\ ~showUnlock
    /\ slug \in GroupSlugs
    /\ IF allZero(slug)
       THEN /\ lastOp' = Op("removeAll", slug, "disabled")
            /\ UNCHANGED entries
       ELSE /\ entries' = removeAllResult(slug)
            /\ lastOp' = Op("removeAll", slug, "ok")
    /\ UNCHANGED <<catalogVars, rankCap, basicsSelected, chosenAspects, unlocks,
                   lostAsBasic, overrideAll, uiVars>>

(***************************************************************************)
(* Aspect selection                                                        *)
(***************************************************************************)
\* faulty variant: clears only the cards the current rank cap shows
clearAspectEntries_visible(e, slug) ==
    [id \in DOMAIN e |->
        IF \E c \in CardSet : c.aspect = slug /\ c.id = id /\ c.rank <= rankCap THEN 0 ELSE e[id]]

\* clearAspectEntries(slug)
clearAspectEntries(e, slug) ==
    [id \in DOMAIN e |->
        IF \E c \in CardSet : c.aspect = slug /\ c.id = id THEN 0 ELSE e[id]]

\* toggleBasic(slug): the handler
toggleBasicEffect(slug) ==
    IF slug \in basicsSelected
    THEN /\ basicsSelected' = basicsSelected \ {slug}
         /\ entries' = clearAspectEntries(entries, slug)
         /\ lastOp' = Op("toggle", slug, "off")
    ELSE /\ basicsSelected' = basicsSelected \cup {slug}
         /\ UNCHANGED entries
         /\ lastOp' = Op("toggle", slug, "on")

\* chosenAspects.filter(non-special and eligible)
nonSpecialSelected == {s \in chosenAspects : ~isSpecialAspect(s) /\ aspectEligible(s)}

isDarkTrio(set) == Cardinality(set) = 3 /\ \A s \in DARK_SLUGS : s \in set

\* toggleAspect(slug): the handler
toggleAspectEffect(slug) ==
    LET total == Cardinality(nonSpecialSelected) IN
    IF overrideAll \/ slug \notin Slugs
    THEN /\ UNCHANGED <<basicsSelected, chosenAspects, entries>>
         /\ lastOp' = Op("toggle", slug, "ignored")
    ELSE IF isBasicAspect(slug)
    THEN /\ toggleBasicEffect(slug)
         /\ UNCHANGED chosenAspects
    ELSE IF slug \in chosenAspects
    THEN /\ chosenAspects' = chosenAspects \ {slug}
         /\ entries' = clearAspectEntries(entries, slug)
         /\ UNCHANGED basicsSelected
         /\ lastOp' = Op("toggle", slug, "off")
    ELSE IF isSpecialAspect(slug) \/ total < 2
    THEN /\ chosenAspects' = chosenAspects \cup {slug}
         /\ UNCHANGED <<basicsSelected, entries>>
         /\ lastOp' = Op("toggle", slug, "on")
    ELSE IF total = 2 /\ isDarkTrio(nonSpecialSelected \cup {slug})
    THEN /\ chosenAspects' = chosenAspects \cup {slug}
         /\ UNCHANGED <<basicsSelected, entries>>
         /\ lastOp' = Op("toggle", slug, "on")
    ELSE /\ UNCHANGED <<basicsSelected, chosenAspects, entries>>
         /\ lastOp' = Op("toggle", slug, "rejected")

\* the `disabled` prop the Dark Arts and Additional Aspects lists compute
cardDisabled(slug) ==
    LET total == Cardinality(nonSpecialSelected)
        set == {s \in chosenAspects : ~isSpecialAspect(s)} \cup {slug}
    IN IF overrideAll \/ slug \in chosenAspects THEN FALSE
       ELSE IF total < 2 THEN FALSE
       ELSE IF total = 2 THEN ~isDarkTrio(set)
       ELSE TRUE

isDarkAspect(slug) == slug \in DARK_SLUGS

\* Basics list: an AspectCard per eligible basic aspect, always unlocked
BasicsList == {s \in Slugs : isBasicAspect(s) /\ aspectEligible(s)}
\* Dark Arts list (rendered when showDarkCategory)
DarkList == {s \in Slugs : isDarkAspect(s) /\ (overrideAll \/ s \in unlocksSet) /\ aspectEligible(s)}
\* Special Aspects list
SpecialList == {s \in Slugs : isSpecialAspect(s) /\ (overrideAll \/ s \in unlocksSet) /\ aspectEligible(s)}
\* Additional Aspects list
AdditionalList == {s \in Slugs : ~isBasicAspect(s) /\ ~isSpecialAspect(s) /\ ~isDarkAspect(s) /\ aspectEligible(s)}

aspectFrame == UNCHANGED <<catalogVars, rankCap, unlocks, lostAsBasic, overrideAll, uiVars>>

\* click on an AspectCard of the Basics list
toggleBasic(slug) ==
    /\ ~showUnlock
    /\ slug \in BasicsList
    /\ toggleBasicEffect(slug)
    /\ UNCHANGED chosenAspects
    /\ aspectFrame

\* faulty variant: the Additional Aspects button ignores the unlocked prop
aspectButtonEnabled_noLock(slug) ==
    \/ slug \in DarkList /\ ~cardDisabled(slug)
    \/ slug \in SpecialList
    \/ slug \in AdditionalList /\ ~cardDisabled(slug)

\* click on an AspectCard of the Dark Arts, Special or Additional list; the
\* button element is disabled when !unlocked || disabled
aspectButtonEnabled(slug) ==
    \/ slug \in DarkList /\ ~cardDisabled(slug)
    \/ slug \in SpecialList
    \/ slug \in AdditionalList /\ (overrideAll \/ slug \in unlocksSet) /\ ~cardDisabled(slug)

toggleAspect(slug) ==
    /\ ~showUnlock
    /\ slug \in DarkList \cup SpecialList \cup AdditionalList
    /\ IF aspectButtonEnabled(slug)
       THEN toggleAspectEffect(slug)
       ELSE /\ UNCHANGED <<basicsSelected, chosenAspects, entries>>
            /\ lastOp' = Op("toggle", slug, "disabled")
    /\ aspectFrame

(***************************************************************************)
(* Rank transition handler                                                 *)
(***************************************************************************)
nameByAspect(slug) ==
    IF slug \in Slugs THEN (CHOOSE a \in aspects : a.slug = slug).name ELSE slug

\* faulty variant: also lists the cards of the requested rank itself
removalsFor_inclusive(nextRank) ==
    {[id |-> c.id, qty |-> Qty(entries, c.id), name |-> c.name,
      aspect |-> nameByAspect(c.aspect), rank |-> c.rank, type |-> c.type] :
        c \in {x \in CardSet : Qty(entries, x.id) > 0 /\ x.rank >= nextRank}}

\* the removals list handleRankSelect builds when lowering to nextRank
removalsFor(nextRank) ==
    {[id |-> c.id, qty |-> Qty(entries, c.id), name |-> c.name,
      aspect |-> nameByAspect(c.aspect), rank |-> c.rank, type |-> c.type] :
        c \in {x \in CardSet : Qty(entries, x.id) > 0 /\ x.rank > nextRank}}

\* faulty variant: lowering trims the higher-rank entries at once, unasked
handleRankSelect_silent(nextRank) ==
    /\ ~showUnlock
    /\ nextRank \in 1..RANK_MAX
    /\ rankCap' = nextRank
    /\ entries' = [id \in DOMAIN entries |->
                     IF CardById(id).rank > nextRank THEN 0 ELSE entries[id]]
    /\ lastOp' = OpOut("rank", nextRank, "applied", <<rankCap>>)
    /\ UNCHANGED <<catalogVars, basicsSelected, chosenAspects, unlocks, lostAsBasic,
                   overrideAll, uiVars>>

\* faulty variant: every lowering asks for confirmation, stranded entries or not
handleRankSelect_alwaysAsk(nextRank) ==
    /\ ~showUnlock
    /\ nextRank \in 1..RANK_MAX
    /\ IF nextRank < rankCap
       THEN /\ rankPending' = [next |-> nextRank, removals |-> removalsFor(nextRank)]
            /\ UNCHANGED rankCap
            /\ lastOp' = OpOut("rank", nextRank, "pending", <<rankCap>>)
       ELSE /\ rankCap' = nextRank
            /\ UNCHANGED rankPending
            /\ lastOp' = OpOut("rank", nextRank, "applied", <<rankCap>>)
    /\ UNCHANGED <<catalogVars, basicsSelected, chosenAspects, unlocks, lostAsBasic,
                   entries, overrideAll, capAttempt, capTimers, capTimer, roleFilter, showUnlock>>

handleRankSelect(nextRank) ==
    /\ ~showUnlock
    /\ nextRank \in 1..RANK_MAX
    /\ IF nextRank = rankCap
       THEN /\ UNCHANGED <<rankCap, rankPending>>
            /\ lastOp' = OpOut("rank", nextRank, "same", <<rankCap>>)
       ELSE IF nextRank < rankCap /\ removalsFor(nextRank) # {}
       THEN /\ rankPending' = [next |-> nextRank, removals |-> removalsFor(nextRank)]
            /\ UNCHANGED rankCap
            /\ lastOp' = OpOut("rank", nextRank, "pending", <<rankCap>>)
       ELSE /\ rankCap' = nextRank
            /\ UNCHANGED rankPending
            /\ lastOp' = OpOut("rank", nextRank, "applied", <<rankCap>>)
    /\ UNCHANGED <<catalogVars, basicsSelected, chosenAspects, unlocks, lostAsBasic,
                   entries, overrideAll, capAttempt, capTimers, capTimer, roleFilter, showUnlock>>

\* the pending banner: total pages to remove and the per-type subtotals
RECURSIVE SumRemovals(_)
SumRemovals(rs) ==
    IF rs = {} THEN 0
    ELSE LET r == CHOOSE x \in rs : TRUE IN r.qty + SumRemovals(rs \ {r})

pendingTotal == SumRemovals(rankPending.removals)
pendingByType(t) == SumRemovals({r \in rankPending.removals : r.type = t})

\* faulty variant: confirm applies the rank and keeps the listed entries
confirmEntries_keep(e, removals) == e

\* "Apply Rank n and Remove" of the pending banner
confirmEntries(e, removals) ==
    [id \in DOMAIN e |-> IF \E r \in removals : r.id = id THEN 0 ELSE e[id]]

rankConfirm ==
    /\ ~showUnlock
    /\ rankPending # NoPending
    /\ entries' = confirmEntries(entries, rankPending.removals)
    /\ rankCap' = rankPending.next
    /\ rankPending' = NoPending
    /\ lastOp' = Op("rankConfirm", rankPending.next, "applied")
    /\ UNCHANGED <<catalogVars, basicsSelected, chosenAspects, unlocks, lostAsBasic,
                   overrideAll, capAttempt, capTimers, capTimer, roleFilter, showUnlock>>

\* faulty variant: cancel dismisses the banner and still applies the rank
rankCancel_applies ==
    /\ ~showUnlock
    /\ rankPending # NoPending
    /\ rankPending' = NoPending
    /\ rankCap' = rankPending.next
    /\ lastOp' = Op("rankCancel", rankPending.next, "cancelled")
    /\ UNCHANGED <<catalogVars, basicsSelected, chosenAspects, unlocks, lostAsBasic, entries,
                   overrideAll, capAttempt, capTimers, capTimer, roleFilter, showUnlock>>

\* "Cancel" of the pending banner
rankCancel ==
    /\ ~showUnlock
    /\ rankPending # NoPending
    /\ rankPending' = NoPending
    /\ lastOp' = Op("rankCancel", rankPending.next, "cancelled")
    /\ UNCHANGED <<catalogVars, deckVars, capAttempt, capTimers, capTimer, roleFilter, showUnlock>>

(***************************************************************************)
(* Unlock codes                                                            *)
(***************************************************************************)
OVERRIDE_INPUT == <<"OVERRIDE">>
LOST_CODE == "ENDLESS SECRETS"

\* one iteration of the loop over the chained parts of the input
redeemStep(acc, p) ==
    IF p = LOST_CODE THEN
        IF lostAsBasic THEN [acc EXCEPT !.anyUsed = TRUE]
        ELSE [acc EXCEPT !.lost = TRUE, !.anyNew = TRUE,
                         !.names = Append(@, "Aspect of the Lost (Basic)")]
    ELSE IF p \notin DOMAIN codes THEN [acc EXCEPT !.anyInvalid = TRUE]
    ELSE LET slug == codes[p] IN
        IF slug = "*" THEN
            IF ~(Slugs \subseteq acc.nextUnlocks)
            THEN [acc EXCEPT !.nextUnlocks = @ \cup Slugs, !.anyNew = TRUE,
                             !.names = Append(@, "All Aspects")]
            ELSE [acc EXCEPT !.anyUsed = TRUE]
        ELSE IF slug = "#dark_all" THEN
            IF ~(DARK_SLUGS \subseteq acc.nextUnlocks)
            THEN [acc EXCEPT !.nextUnlocks = @ \cup DARK_SLUGS, !.anyNew = TRUE,
                             !.names = Append(@, "Dark Arts")]
            ELSE [acc EXCEPT !.anyUsed = TRUE]
        ELSE IF slug \notin acc.nextUnlocks
            THEN [acc EXCEPT !.nextUnlocks = @ \cup {slug}, !.anyNew = TRUE,
                             !.names = Append(@, nameByAspect(slug))]
            ELSE [acc EXCEPT !.anyUsed = TRUE]

RECURSIVE redeemLoop(_, _)
redeemLoop(acc, parts) ==
    IF parts = << >> THEN acc ELSE redeemLoop(redeemStep(acc, Head(parts)), Tail(parts))

redeemResult(parts) ==
    redeemLoop([nextUnlocks |-> unlocks, names |-> << >>, lost |-> FALSE,
                anyNew |-> FALSE, anyUsed |-> FALSE, anyInvalid |-> FALSE], parts)

\* faulty variant: a code redeemed before is reported as invalid
redeemStatus_noUsed(acc) == IF acc.anyNew THEN "ok" ELSE "invalid"

redeemStatus(acc) ==
    IF acc.anyNew THEN "ok"
    ELSE IF acc.anyUsed /\ ~acc.anyInvalid THEN "used"
    ELSE "invalid"

\* the strings a user may type as one chained part
CodeParts == DOMAIN codes \cup {"ZZZ", LOST_CODE}
RECURSIVE SeqsUpTo(_, _)
SeqsUpTo(S, n) ==
    IF n = 0 THEN {<< >>}
    ELSE LET shorter == SeqsUpTo(S, n - 1)
         IN shorter \cup {Append(q, x) : q \in shorter, x \in S}
RedeemInputs == (SeqsUpTo(CodeParts, MaxCodeParts) \ {<< >>}) \cup {OVERRIDE_INPUT}

redeem(input) ==
    /\ showUnlock
    /\ IF overrideCode /\ input = OVERRIDE_INPUT
       THEN /\ overrideAll' = ~overrideAll
            /\ lastOp' = OpOut("redeem", input, "ok", <<"Override Mode">>)
            /\ UNCHANGED <<unlocks, lostAsBasic, chosenAspects, basicsSelected>>
       ELSE LET acc == redeemResult(input) IN
            /\ unlocks' = acc.nextUnlocks
            /\ IF acc.lost
               THEN /\ lostAsBasic' = TRUE
                    /\ chosenAspects' = chosenAspects \ {"lost"}
                    /\ basicsSelected' = basicsSelected \cup {"lost"}
               ELSE UNCHANGED <<lostAsBasic, chosenAspects, basicsSelected>>
            /\ lastOp' = OpOut("redeem", input, redeemStatus(acc),
                               IF acc.anyNew THEN acc.names ELSE << >>)
            /\ UNCHANGED overrideAll
    /\ UNCHANGED <<catalogVars, rankCap, entries, uiVars>>

\* "Unlock Aspects" button (not rendered in override mode) and the modal's Close
openUnlock ==
    /\ ~showUnlock /\ ~overrideAll
    /\ showUnlock' = TRUE
    /\ lastOp' = Op("openUnlock", "", "ok")
    /\ UNCHANGED <<catalogVars, deckVars, rankPending, capAttempt, capTimers, capTimer, roleFilter>>

closeUnlock ==
    /\ showUnlock
    /\ showUnlock' = FALSE
    /\ lastOp' = Op("closeUnlock", "", "ok")
    /\ UNCHANGED <<catalogVars, deckVars, rankPending, capAttempt, capTimers, capTimer, roleFilter>>

(***************************************************************************)
(* Share codes, reset, role filter                                         *)
(***************************************************************************)
\* applyShareCode(code) on the JSON value the code decodes to; Garbage stands
\* for a code that atob / JSON.parse reject. A field that is absent is 0 (r)
\* or the empty collection (b, c, e): raw.r||1, raw.b||[], raw.c||[], raw.e||{}
Garbage == [v |-> 0, r |-> 0, b |-> {}, c |-> {}, e |-> << >>]

\* faulty variant: the import restores the deck and forgets the rank cap
applyShareCode_keepRank(raw) ==
    /\ ~showUnlock
    /\ IF raw = Garbage \/ raw.v # 1
       THEN /\ UNCHANGED <<basicsSelected, chosenAspects, entries, unlocks>>
            /\ lastOp' = Op("applyShareCode", raw, "false")
       ELSE /\ basicsSelected' = raw.b
            /\ chosenAspects' = raw.c
            /\ entries' = [id \in CardIds |-> Qty(raw.e, id)]
            /\ unlocks' = unlocks \cup raw.b \cup raw.c
            /\ lastOp' = Op("applyShareCode", raw, "true")
    /\ UNCHANGED <<catalogVars, rankCap, lostAsBasic, overrideAll, uiVars>>

applyShareCode(raw) ==
    /\ ~showUnlock
    /\ IF raw = Garbage \/ raw.v # 1
       THEN /\ UNCHANGED <<rankCap, basicsSelected, chosenAspects, entries, unlocks>>
            /\ lastOp' = Op("applyShareCode", raw, "false")
       ELSE /\ rankCap' = (IF raw.r = 0 THEN 1 ELSE raw.r)
            /\ basicsSelected' = raw.b
            /\ chosenAspects' = raw.c
            /\ entries' = [id \in CardIds |-> Qty(raw.e, id)]
            /\ unlocks' = unlocks \cup raw.b \cup raw.c
            /\ lastOp' = Op("applyShareCode", raw, "true")
    /\ UNCHANGED <<catalogVars, lostAsBasic, overrideAll, uiVars>>

\* loadDeck(name) for a record d of listDecks() (the Load button exists only
\* for listed names). rankCap is stored as read: an absent rankCap reads as
\* undefined, written 0 here, which like undefined is below every rank and
\* equal to none; the other absent fields default to the empty collection
loadDeck(d) ==
    /\ ~showUnlock
    /\ rankCap' = d.rankCap
    /\ basicsSelected' = d.basicsSelected
    /\ chosenAspects' = d.chosenAspects
    /\ entries' = [id \in CardIds |-> Qty(d.entries, id)]
    /\ unlocks' = unlocks \cup d.basicsSelected \cup d.chosenAspects
    /\ lastOp' = Op("loadDeck", d, "true")
    /\ UNCHANGED <<catalogVars, lostAsBasic, overrideAll, uiVars>>

\* makeShareCode: the compact record of the current deck
makeShareCode ==
    [v |-> 1, r |-> rankCap, b |-> basicsSelected, c |-> chosenAspects, e |-> entries]

\* resetAll, after window.confirm returned true
resetAll ==
    /\ ~showUnlock
    /\ unlocks' = {"focus", "study"}
    /\ basicsSelected' = {"focus"}
    /\ chosenAspects' = {}
    /\ entries' = [id \in CardIds |-> 0]
    /\ lostAsBasic' = FALSE
    /\ lastOp' = Op("resetAll", "", "ok")
    /\ UNCHANGED <<catalogVars, rankCap, overrideAll, uiVars>>

\* a role-filter chip
toggleRole(r) ==
    /\ ~showUnlock
    /\ roleFilter' = IF r \in roleFilter THEN roleFilter \ {r} ELSE roleFilter \cup {r}
    /\ lastOp' = Op("toggleRole", r, "ok")
    /\ UNCHANGED <<catalogVars, deckVars, rankPending, capAttempt, capTimers, capTimer, showUnlock>>

(***************************************************************************)
(* Initial state: App's useState defaults once the CSV catalog is loaded   *)
(***************************************************************************)
InitWith(cat) ==
    /\ aspects = cat.aspects
    /\ cards = cat.cards
    /\ codes = cat.codes
    /\ overrideCode = cat.overrideCode
    /\ rankCap = 1
    /\ basicsSelected = {"focus"}
    /\ chosenAspects = {}
    /\ unlocks = {"focus", "study"}
    /\ lostAsBasic = FALSE
    /\ entries = [id \in {cat.cards[i].id : i \in 1..Len(cat.cards)} |-> 0]
    /\ overrideAll = FALSE
    /\ rankPending = NoPending
    /\ capAttempt = NoType
    /\ capTimers = {}
    /\ capTimer = 0
    /\ roleFilter = {}
    /\ showUnlock = FALSE
    /\ lastOp = Op("init", "", "ok")

\* Deck composition: quantities, quotas, selection and unlocking
Init == InitWith(CatDeck)

Next ==
    \/ \E c \in CardSet : Inc(c)
    \/ \E c \in CardSet : Dec(c)
    \/ \E c \in CardSet : SetMax(c)
    \/ \E s \in Slugs : PickAll(s)
    \/ \E s \in Slugs : RemoveAll(s)
    \/ \E s \in Slugs : toggleBasic(s)
    \/ \E s \in Slugs : toggleAspect(s)
    \/ openUnlock
    \/ \E input \in RedeemInputs : redeem(input)
    \/ closeUnlock
    \/ CapTimeout

Spec == Init /\ [][Next]_vars

\* Rank transitions over a deck of cards of several ranks
InitRank == InitWith(CatRank)

NextRank ==
    \/ \E c \in CardSet : Inc(c)
    \/ \E c \in CardSet : Dec(c)
    \/ \E s \in Slugs : toggleBasic(s)
    \/ \E n \in 1..RANK_MAX : handleRankSelect(n)
    \/ rankConfirm
    \/ rankCancel

SpecRank == InitRank /\ [][NextRank]_vars

\* Eligibility of aspects over catalogs with every pair of card ranks
InitEligible == \E r1, r2 \in 1..RANK_MAX : InitWith(CatEligible(r1, r2))

\* a render or handler evaluates aspectEligible(slug)
aspectEligibleCall(slug) ==
    /\ lastOp' = Op("aspectEligible", slug, IF aspectEligible(slug) THEN "true" ELSE "false")
    /\ UNCHANGED <<catalogVars, deckVars, uiVars>>

NextEligible ==
    \/ \E n \in 1..RANK_MAX : handleRankSelect(n)
    \/ \E s \in EligibleSlugs : aspectEligibleCall(s)

SpecEligible == InitEligible /\ [][NextEligible]_vars

\* The same with the reset operation
NextReset ==
    \/ NextRank
    \/ resetAll

SpecReset == InitRank /\ [][NextReset]_vars

\* Aspect selection under catalogs with two, three and four dark aspects
InitAspects == \E darks \in DarkChoices : InitWith(CatAspects(darks))

NextAspects ==
    \/ \E s \in Slugs : toggleBasic(s)
    \/ \E s \in Slugs : toggleAspect(s)
    \/ \E n \in 1..MaxRankChoice : handleRankSelect(n)
    \/ openUnlock
    \/ \E input \in RedeemInputs : redeem(input)
    \/ closeUnlock

SpecAspects == InitAspects /\ [][NextAspects]_vars

\* Deselection with cards in the deck, in a build with the override code
InitToggle == InitWith(CatToggle)

NextToggle ==
    \/ \E s \in Slugs : toggleBasic(s)
    \/ \E s \in Slugs : toggleAspect(s)
    \/ \E s \in Slugs : PickAll(s)
    \/ \E n \in 1..MaxRankChoice : handleRankSelect(n)
    \/ rankConfirm
    \/ rankCancel
    \/ openUnlock
    \/ \E input \in RedeemInputs : redeem(input)
    \/ closeUnlock

SpecToggle == InitToggle /\ [][NextToggle]_vars

\* Share codes pasted into "Load From Code": codes made by another session or
\* written by hand; the entries map names at most one card
ForeignCodes ==
    {Garbage}
    \cup {[v |-> 2, r |-> 1, b |-> {"focus"}, c |-> {}, e |-> << >>]}
    \cup {[v |-> 1, r |-> r, b |-> {"focus"}, c |-> {}, e |-> e] :
            r \in {0, 2},
            e \in {<< >>} \cup {[i \in {id} |-> q] : id \in CardIds, q \in {1, MaxForeignQty}}}

InitShare == InitWith(CatShare)

NextShare ==
    \/ \E c \in CardSet : Inc(c)
    \/ \E c \in CardSet : Dec(c)
    \/ \E c \in CardSet : SetMax(c)
    \/ \E s \in Slugs : PickAll(s)
    \/ \E s \in Slugs : RemoveAll(s)
    \/ \E s \in Slugs : toggleBasic(s)
    \/ \E n \in 1..RANK_MAX : handleRankSelect(n)
    \/ rankConfirm
    \/ rankCancel
    \/ \E raw \in ForeignCodes : applyShareCode(raw)

SpecShare == InitShare /\ [][NextShare]_vars

\* Share codes written by hand: JSON numbers may be negative
SignedDecks ==
    {[v |-> 1, r |-> r, b |-> {"focus"}, c |-> {}, e |-> [i \in {id} |-> q]] :
        r \in {1, 2}, id \in {"h1", "l2"}, q \in {-1, 1}}

\* The row controls and such share codes
NextSigned ==
    \/ \E c \in CardSet : Inc(c)
    \/ \E c \in CardSet : Dec(c)
    \/ \E c \in CardSet : SetMax(c)
    \/ \E raw \in SignedDecks : applyShareCode(raw)

SpecSigned == InitShare /\ [][NextSigned]_vars

\* Filling a deck to the page limit
InitFull == InitWith(CatFull)

NextFull ==
    \/ \E c \in CardSet : Inc(c)
    \/ \E c \in CardSet : Dec(c)
    \/ \E c \in CardSet : SetMax(c)
    \/ \E s \in Slugs : PickAll(s)
    \/ \E s \in Slugs : RemoveAll(s)
    \/ CapTimeout

SpecFull == InitFull /\ [][NextFull]_vars

\* The same with the browser's timers: a timeout that stays armed fires
SpecCap == InitFull /\ [][NextFull]_vars /\ \A h \in 1..2 : WF_vars(CapTimeoutOf(h))

\* PICK ALL / REMOVE ALL under rank changes and the role filter
InitBulk == InitWith(CatBulk)

NextBulk ==
    \/ \E c \in CardSet : Inc(c)
    \/ \E s \in Slugs : PickAll(s)
    \/ \E s \in Slugs : RemoveAll(s)
    \/ \E s \in Slugs : toggleBasic(s)
    \/ \E r \in BulkRoles : toggleRole(r)
    \/ \E n \in 1..MaxRankChoice : handleRankSelect(n)
    \/ rankConfirm
    \/ rankCancel

SpecBulk == InitBulk /\ [][NextBulk]_vars

\* Share codes made by this session ("Copy Share Code") and by others
NextRound ==
    \/ NextShare
    \/ applyShareCode(makeShareCode)

SpecRound == InitShare /\ [][NextRound]_vars

\* Decks shared by another session of the same build: its compact records,
\* one of them copied while that session was in override mode (a card of an
\* aspect that is not among its selections)
SharedDecks ==
    {[v |-> 1, r |-> 1, b |-> {"focus"}, c |-> c, e |-> e] :
        c \in {{}, {"legend"}},
        e \in {<< >>, [i \in {"l1"} |-> 1]}}

NextLoad ==
    \/ \E s \in Slugs : toggleBasic(s)
    \/ \E s \in Slugs : toggleAspect(s)
    \/ \E s \in Slugs : PickAll(s)
    \/ \E s \in Slugs : RemoveAll(s)
    \/ openUnlock
    \/ \E input \in RedeemInputs : redeem(input)
    \/ closeUnlock
    \/ resetAll
    \/ \E raw \in SharedDecks : applyShareCode(raw)

SpecLoad == InitToggle /\ [][NextLoad]_vars

\* Filling a deck in override mode
InitOverride == InitWith(CatOverride)

NextOverride ==
    \/ \E c \in CardSet : Inc(c)
    \/ \E c \in CardSet : SetMax(c)
    \/ \E s \in Slugs : PickAll(s)
    \/ \E s \in Slugs : RemoveAll(s)
    \/ openUnlock
    \/ \E input \in RedeemInputs : redeem(input)
    \/ closeUnlock
    \/ CapTimeout

SpecOverride == InitOverride /\ [][NextOverride]_vars

\* Astral copies in a deck filled to the page limit
InitPages == \E owner \in {"focus", "study"} : InitWith(CatPages(owner))

NextPages ==
    \/ \E c \in CardSet : Inc(c)
    \/ \E c \in CardSet : SetMax(c)
    \/ \E s \in Slugs : PickAll(s)
    \/ \E s \in Slugs : RemoveAll(s)
    \/ \E s \in Slugs : toggleBasic(s)

SpecPages == InitPages /\ [][NextPages]_vars

\* Saved decks found in localStorage: records written by saveDeck and
\* records that lack rankCap (0) or the collections (empty)
SavedDecks ==
    {[version |-> 1, rankCap |-> r, basicsSelected |-> b, chosenAspects |-> {}, entries |-> e] :
        r \in {0, 2}, b \in {{}, {"focus"}}, e \in {<< >>, [i \in {"h1"} |-> 1]}}

\* Rehydration from share codes and saved decks
NextRehydrate ==
    \/ \E c \in CardSet : Inc(c)
    \/ \E s \in Slugs : toggleBasic(s)
    \/ \E n \in 1..RANK_MAX : handleRankSelect(n)
    \/ rankConfirm
    \/ rankCancel
    \/ \E raw \in ForeignCodes : applyShareCode(raw)
    \/ \E d \in SavedDecks : loadDeck(d)

SpecRehydrate == InitShare /\ [][NextRehydrate]_vars

\* Share codes copied by a session of the lost catalog: with lost among the
\* chosen aspects, and with lost among the basics (after ENDLESS SECRETS)
LostDecks ==
    {[v |-> 1, r |-> 1, b |-> {"focus"}, c |-> {"lost"}, e |-> << >>],
     [v |-> 1, r |-> 1, b |-> {"focus", "lost"}, c |-> {}, e |-> << >>]}

\* Selections across ENDLESS SECRETS, reset and loads
InitLost == InitWith(CatLost)

NextLost ==
    \/ \E s \in Slugs : toggleBasic(s)
    \/ \E s \in Slugs : toggleAspect(s)
    \/ openUnlock
    \/ \E input \in RedeemInputs : redeem(input)
    \/ closeUnlock
    \/ resetAll
    \/ \E raw \in LostDecks : applyShareCode(raw)

SpecLost == InitLost /\ [][NextLost]_vars

(***************************************************************************)
(* Properties                                                              *)
(***************************************************************************)
CountableTypes == {"Holy", "Light", "Dark"}
nonSpecialChosen == {s \in chosenAspects : ~isSpecialAspect(s)}
stranded(nextRank) == {c \in CardSet : Qty(entries, c.id) > 0 /\ c.rank > nextRank}

\* C1: in every reachable state, loads of a shared deck included, the pages
\* of the countable types sum to at most 30 and each countable type stays
\* within its own cap (Holy 4, Light 24, Dark 2).
C1_CapacityInvariant ==
    /\ totalQty <= PAGE_LIMIT
    /\ \A t \in CountableTypes : counts(t) <= TYPE_LIMITS(t)

\* a share code was accepted and left a countable type above its cap
C1_ImportOverCap ==
    /\ lastOp.op = "applyShareCode" /\ lastOp.res = "true"
    /\ \E t \in CountableTypes : counts(t) > TYPE_LIMITS(t)

\* C2: in every reachable state Astral copies total at most 7 and Shadow
\* copies at most 3, whichever button added them, and a positive Astral or
\* Shadow quantity belongs to an unlocked aspect.
C2_SpecialTypeInvariant ==
    /\ counts("Astral") <= ASTRAL_LIMIT
    /\ counts("Shadow") <= SHADOW_LIMIT
    /\ \A c \in CardSet :
          (c.type \in {"Astral", "Shadow"} /\ Qty(entries, c.id) > 0) => c.aspect \in unlocksSet

\* the + or MAX button of an Astral card has just taken the total above 7
C2_ButtonOverAstral ==
    /\ lastOp.op \in {"inc", "max"} /\ lastOp.res = "ok"
    /\ counts("Astral") > ASTRAL_LIMIT

\* C3: in every reachable state no card holds more copies than its maxCopies.
C3_MaxCopies == \A c \in CardSet : Qty(entries, c.id) <= c.maxCopies

\* a share code was accepted and left a card above its maxCopies
C3_ImportOverMaxCopies ==
    /\ lastOp.op = "applyShareCode" /\ lastOp.res = "true"
    /\ \E c \in CardSet : Qty(entries, c.id) > c.maxCopies

\* C4: after any toggles and rank changes the non-special aspects in
\* chosenAspects number 0, 1 or 2, or are exactly the three dark aspects.
\* Stated for the catalog with three dark aspects, the one the trio rule is
\* written for.
C4_AspectCount ==
    Cardinality(DARK_SLUGS) = 3 =>
        \/ Cardinality(nonSpecialChosen) <= 2
        \/ Cardinality(nonSpecialChosen) = 3 /\ nonSpecialChosen = DARK_SLUGS

\* four non-special aspects are chosen and the last click was a toggle-on
C4_FourChosen ==
    /\ Cardinality(DARK_SLUGS) = 3
    /\ Cardinality(nonSpecialChosen) = 4
    /\ lastOp.op = "toggle" /\ lastOp.res = "on"

\* C5: with exactly two eligible non-special aspects selected, a toggle-on of
\* a further non-special aspect succeeds only if the two plus the candidate
\* are exactly the dark-flagged aspects and there are three of them, in every
\* catalog.
C5_TrioOnly ==
    [][\A s \in Slugs :
         ( /\ lastOp'.op = "toggle" /\ lastOp'.arg = s
           /\ ~isBasicAspect(s) /\ ~isSpecialAspect(s)
           /\ s \notin chosenAspects
           /\ Cardinality(nonSpecialSelected) = 2
           /\ s \in chosenAspects' )
         => /\ nonSpecialSelected \cup {s} = DARK_SLUGS
            /\ Cardinality(DARK_SLUGS) = 3]_vars

\* three non-special aspects are chosen in a catalog with two dark aspects
C5_ThirdWithTwoDarks ==
    /\ Cardinality(DARK_SLUGS) = 2
    /\ Cardinality(nonSpecialChosen) = 3
    /\ lastOp.op = "toggle" /\ lastOp.res = "on"

deselected(s) ==
    /\ s \notin basicsSelected' \cup chosenAspects'
    /\ \A c \in CardSet : entries'[c.id] = IF c.aspect = s THEN 0 ELSE entries[c.id]

C7_LoweringAsks ==
    [][\A n \in 1..RANK_MAX :
         (lastOp'.op = "rank" /\ lastOp'.arg = n)
         => /\ entries' = entries
            /\ (n < rankCap /\ stranded(n) # {})
                 => /\ rankPending' = [next |-> n, removals |-> removalsFor(n)]
                    /\ rankCap' = rankCap]_vars

\* a lowering request is pending, the cap still above it, a stranded entry kept
C7_Pending ==
    /\ lastOp.op = "rank" /\ lastOp.res = "pending"
    /\ rankPending # NoPending /\ rankPending.next = lastOp.arg
    /\ rankCap > lastOp.arg
    /\ stranded(lastOp.arg) # {}

\* C8: confirm zeroes every listed entry, sets rankCap to the pending target,
\* clears the pending state and leaves every unlisted entry unchanged.
C8_Confirm ==
    [][lastOp'.op = "rankConfirm"
         => /\ rankPending # NoPending
            /\ \A id \in CardIds :
                  entries'[id] = IF \E r \in rankPending.removals : r.id = id
                                 THEN 0 ELSE entries[id]
            /\ rankCap' = rankPending.next
            /\ rankPending' = NoPending]_vars

\* confirm has run: the cap is the target, a card above it is at 0 and a
\* card within it is still in the deck
C8_Confirmed ==
    /\ lastOp.op = "rankConfirm"
    /\ rankCap = lastOp.arg /\ rankPending = NoPending
    /\ \E c \in CardSet : c.rank > rankCap /\ entries[c.id] = 0
    /\ \E c \in CardSet : c.rank <= rankCap /\ entries[c.id] > 0

\* C9: cancel clears the pending state and leaves rankCap, entries,
\* basicsSelected, chosenAspects and the unlocked aspects as they were.
C9_Cancel ==
    [][lastOp'.op = "rankCancel"
         => /\ rankPending # NoPending
            /\ rankPending' = NoPending
            /\ UNCHANGED <<rankCap, entries, basicsSelected, chosenAspects, unlocks>>]_vars

\* cancel has run: nothing pending, the cap above the refused target and the
\* stranded entry still in the deck
C9_Cancelled ==
    /\ lastOp.op = "rankCancel"
    /\ rankPending = NoPending
    /\ rankCap > lastOp.arg
    /\ stranded(lastOp.arg) # {}

\* C10: a request that raises the cap, or lowers it while no positive entry
\* is above the requested rank, sets rankCap at once, does not open the
\* pending confirmation and leaves the entries unchanged.
C10_AppliedAtOnce ==
    [][\A n \in 1..RANK_MAX :
         ( /\ lastOp'.op = "rank" /\ lastOp'.arg = n
           /\ (n > rankCap \/ (n < rankCap /\ stranded(n) = {})) )
         => /\ rankCap' = n
            /\ rankPending' = rankPending
            /\ entries' = entries]_vars

\* a lowering was applied at once with a card still in the deck
C10_LoweredAtOnce ==
    /\ lastOp.op = "rank" /\ lastOp.res = "applied"
    /\ lastOp.out[1] > lastOp.arg
    /\ rankCap = lastOp.arg /\ rankPending = NoPending
    /\ \E c \in CardSet : entries[c.id] > 0

\* the quota of a card's type still has room: TYPE_LIMITS for the countable
\* types, 7 for Astral, 3 for Shadow
typeRoomLeft(c) ==
    IF c.type = "Astral" THEN counts("Astral") < ASTRAL_LIMIT
    ELSE IF c.type = "Shadow" THEN counts("Shadow") < SHADOW_LIMIT
    ELSE counts(c.type) < TYPE_LIMITS(c.type)

incrementAllowed(c) ==
    /\ ~locked(c)
    /\ Qty(entries, c.id) < c.maxCopies
    /\ typeRoomLeft(c)
    /\ countsTowardPages(c) => totalQty < PAGE_LIMIT

\* C11: a click on + raises the card's quantity by exactly 1 and changes no
\* other entry when the aspect is unlocked, the quantity is below maxCopies,
\* the type's quota has room and (countable types) the page total is below
\* 30; in every other case it leaves entries unchanged.
C11_IncrementOne ==
    [][\A c \in CardSet :
         (lastOp'.op = "inc" /\ lastOp'.arg = c.id)
         => IF incrementAllowed(c)
            THEN entries' = [entries EXCEPT ![c.id] = @ + 1]
            ELSE entries' = entries]_vars

\* + has just added an Astral copy beyond the Astral quota
C11_IncPastAstral ==
    /\ lastOp.op = "inc" /\ lastOp.res = "ok"
    /\ CardById(lastOp.arg).type = "Astral"
    /\ counts("Astral") > ASTRAL_LIMIT

\* C12: a click on + of a card that already holds maxCopies changes nothing
\* and raises no cap-reached signal, also when the card's type is at its cap
\* (one Holy card with maxCopies 4 at quantity 4).
C12_MaxCopiesSilent ==
    [][\A c \in CardSet :
         (lastOp'.op = "inc" /\ lastOp'.arg = c.id /\ Qty(entries, c.id) >= c.maxCopies)
         => UNCHANGED <<catalogVars, deckVars, uiVars>>]_vars

\* + was pressed on a Holy card at maxCopies with Holy at its cap: no signal
C12_FifthHoly ==
    /\ lastOp.op = "inc" /\ lastOp.res = "disabled"
    /\ \E c \in CardSet :
          /\ c.id = lastOp.arg /\ c.type = "Holy"
          /\ Qty(entries, c.id) = c.maxCopies /\ c.maxCopies = HOLY_LIMIT
    /\ counts("Holy") = HOLY_LIMIT
    /\ capAttempt = NoType

\* C13: a click on + of an unlocked countable card below maxCopies whose type
\* total equals the type cap leaves entries unchanged and raises the
\* cap-reached signal of that type.
C13_TypeCapSignal ==
    [][\A c \in CardSet :
         ( /\ lastOp'.op = "inc" /\ lastOp'.arg = c.id
           /\ ~locked(c) /\ countsTowardPages(c)
           /\ Qty(entries, c.id) < c.maxCopies
           /\ counts(c.type) = TYPE_LIMITS(c.type) )
         => /\ entries' = entries
            /\ capAttempt' = c.type]_vars

\* + was pressed on a spare card of a full type in a full deck: no signal
C13_FullDeckNoSignal ==
    /\ lastOp.op = "inc" /\ lastOp.res = "disabled"
    /\ totalQty = PAGE_LIMIT
    /\ \E c \in CardSet :
          /\ c.id = lastOp.arg /\ Qty(entries, c.id) < c.maxCopies
          /\ counts(c.type) = TYPE_LIMITS(c.type)
    /\ capAttempt = NoType

\* + was pressed on a spare card of a full type below 30 pages: signal shown
C13_SignalShown ==
    /\ lastOp.op = "inc" /\ lastOp.res = "cap"
    /\ totalQty < PAGE_LIMIT
    /\ capAttempt = CardById(lastOp.arg).type

\* the selection rule refuses s: three eligible non-special aspects are
\* selected already, or two and s does not complete the dark trio
notAllowed(s) ==
    \/ Cardinality(nonSpecialSelected) >= 3
    \/ /\ Cardinality(nonSpecialSelected) = 2
       /\ ~(nonSpecialSelected \cup {s} = DARK_SLUGS /\ Cardinality(DARK_SLUGS) = 3)

\* C14: a click that tries to select a non-special aspect the rule refuses
\* changes none of chosenAspects, basicsSelected, entries, rankCap and the
\* unlocked aspects.
C14_RefusedIsNoOp ==
    [][\A s \in Slugs :
         ( /\ lastOp'.op = "toggle" /\ lastOp'.arg = s
           /\ ~isBasicAspect(s) /\ ~isSpecialAspect(s)
           /\ s \notin chosenAspects
           /\ notAllowed(s) )
         => UNCHANGED <<chosenAspects, basicsSelected, entries, rankCap, unlocks>>]_vars

\* a standard aspect was accepted as third choice next to the two dark ones
C14_StandardAccepted ==
    /\ lastOp.op = "toggle" /\ lastOp.res = "on"
    /\ lastOp.arg \notin DARK_SLUGS
    /\ Cardinality(DARK_SLUGS) = 2
    /\ DARK_SLUGS \subseteq chosenAspects
    /\ Cardinality(nonSpecialChosen) = 3

\* C15: PICK ALL on an aspect lowers no entry, changes only entries of that
\* aspect's cards, skips locked cards, and afterwards no unlocked card of the
\* aspect within the rank cap could take one more copy: each is at maxCopies
\* or a quota that applies to it is exhausted.
C15_PickAllFills ==
    [][\A s \in Slugs :
         (lastOp'.op = "pickAll" /\ lastOp'.arg = s /\ lastOp'.res = "ok")
         => /\ \A c \in CardSet : entries'[c.id] >= entries[c.id]
            /\ \A c \in CardSet : c.aspect # s => entries'[c.id] = entries[c.id]
            /\ \A c \in CardSet : (c.aspect = s /\ locked(c)) => entries'[c.id] = entries[c.id]
            /\ \A c \in CardSet :
                  (c.aspect = s /\ c.rank <= rankCap) => ~(incrementAllowed(c))']_vars

\* PICK ALL ran under a role filter and left room in a card of the aspect
C15_FilteredCardLeft ==
    /\ lastOp.op = "pickAll" /\ lastOp.res = "ok"
    /\ roleFilter # {}
    /\ \E c \in CardSet :
          /\ c.aspect = lastOp.arg /\ c.rank <= rankCap
          /\ ~passesRoleFilter(c)
          /\ incrementAllowed(c)

\* C16: REMOVE ALL on aspect A sets the entry of every card of A to 0,
\* whatever the card's rank, the rank cap and the role filter, and changes no
\* entry of another aspect.
C16_RemoveAllClears ==
    [][\A s \in Slugs :
         (lastOp'.op = "removeAll" /\ lastOp'.arg = s /\ lastOp'.res = "ok")
         => \A c \in CardSet :
               entries'[c.id] = IF c.aspect = s THEN 0 ELSE entries[c.id]]_vars

\* REMOVE ALL ran and a card of the aspect is still in the deck
C16_CardLeft ==
    /\ lastOp.op = "removeAll" /\ lastOp.res = "ok"
    /\ \E c \in CardSet : c.aspect = lastOp.arg /\ entries[c.id] > 0

\* C17: REMOVE ALL is idempotent: right after REMOVE ALL on A, a second
\* REMOVE ALL on A yields the same entries (its button is disabled, and its
\* handler would write the entries it finds).
C17_RemoveAllIdempotent ==
    lastOp.op = "removeAll" =>
        /\ lastOp.arg \in GroupSlugs
        /\ allZero(lastOp.arg)
        /\ removeAllResult(lastOp.arg) = entries

\* REMOVE ALL has emptied a group that held cards; another aspect keeps its
\* card
C17_Removed ==
    /\ lastOp.op = "removeAll" /\ lastOp.res = "ok"
    /\ allZero(lastOp.arg)
    /\ \E c \in CardSet : c.aspect # lastOp.arg /\ entries[c.id] > 0

\* C18: while overrideAll is true every catalog aspect counts as selected and
\* unlocked (each card within the rank cap and the role filter is available
\* and not locked), and a click on a non-basic aspect runs no selection-limit
\* check: the button is enabled, the click is never refused by the limit
\* and the selection stays as it is.
C18_OverrideBypass ==
    [][/\ overrideAll' =>
            (\A c \in CardSet :
                (c.rank <= rankCap /\ passesRoleFilter(c)) => (c \in availableCards /\ ~locked(c)))'
       /\ \A s \in Slugs :
            (overrideAll /\ lastOp'.op = "toggle" /\ lastOp'.arg = s /\ ~isBasicAspect(s))
            => /\ lastOp'.res = "ignored"
               /\ UNCHANGED <<chosenAspects, basicsSelected, entries>>]_vars

\* in override mode a click on an aspect that is neither chosen nor unlocked
\* was ignored while its cards are available and not locked
C18_OverrideClick ==
    /\ overrideAll
    /\ lastOp.op = "toggle" /\ lastOp.res = "ignored"
    /\ lastOp.arg \notin chosenAspects \cup unlocks
    /\ \E c \in availableCards : c.aspect = lastOp.arg /\ ~locked(c)

\* a code makeShareCode can have written: version 1 and a rank cap of 1..5
madeCode(raw) == raw # Garbage /\ raw.v = 1 /\ raw.r \in 1..RANK_MAX

plainCode(p) == p \in DOMAIN codes /\ codes[p] \notin {"*", "#dark_all"}

redeemOutcome(input, absent) ==
    /\ lastOp'.res \in {"ok", "used", "invalid"}
    /\ \A p \in CodeParts :
          input = <<p>> =>
             /\ (plainCode(p) /\ codes[p] \notin unlocks)
                  => /\ lastOp'.res = "ok"
                     /\ lastOp'.out = <<nameByAspect(codes[p])>>
                     /\ unlocks' = unlocks \cup {codes[p]}
             /\ (plainCode(p) /\ codes[p] \in unlocks) => lastOp'.res = "used"
    /\ absent => lastOp'.res = "invalid"
    /\ lastOp'.res \in {"used", "invalid"} => UNCHANGED <<catalogVars, deckVars, uiVars>>

C21_NoStranded == \A c \in CardSet : Qty(entries, c.id) > 0 => c.rank <= rankCap

\* a confirmation has just lowered the cap and left a card above it counted
C21_StrandedAfterConfirm ==
    /\ lastOp.op = "rankConfirm"
    /\ stranded(rankCap) # {}

\* C22: a click on a non-basic aspect that is not chosen adds it to
\* chosenAspects only if the aspect is eligible at the current rank cap and
\* unlocked; a click on a locked or ineligible one leaves chosenAspects as
\* it was.
C22_SelectsEligibleUnlocked ==
    [][\A s \in Slugs :
         (lastOp'.op = "toggle" /\ lastOp'.arg = s /\ ~isBasicAspect(s) /\ s \notin chosenAspects)
         => /\ s \in chosenAspects' => (aspectEligible(s) /\ s \in unlocksSet)
            /\ ~(aspectEligible(s) /\ s \in unlocksSet) => UNCHANGED chosenAspects]_vars

\* a non-basic aspect has just been selected
C22_Selected ==
    /\ lastOp.op = "toggle" /\ lastOp.res = "on"
    /\ ~isBasicAspect(lastOp.arg)
    /\ lastOp.arg \in chosenAspects

\* the button of a locked aspect was pressed
C22_LockedPressed ==
    /\ lastOp.op = "toggle" /\ lastOp.res = "disabled"
    /\ lastOp.arg \notin unlocksSet

\* C23: a rank request that completes without a confirmation (the same rank,
\* a raise, or a lowering that strands nothing) leaves no confirmation
\* pending.
C23_RequestLeavesStable ==
    [][(lastOp'.op = "rank" /\ lastOp'.res \in {"same", "applied"})
         => rankPending' = NoPending]_vars

\* a lowering was applied at once while an older confirmation, recorded for
\* a higher target, is still pending
C23_PendingSurvives ==
    /\ lastOp.op = "rank" /\ lastOp.res = "applied"
    /\ rankPending # NoPending
    /\ rankPending.next > rankCap

\* C24: in every reachable state outside override mode, every entry with a
\* positive quantity belongs to a card of a selected aspect (basicsSelected
\* or chosenAspects), whatever was redeemed, reset or loaded before.
C24_SelectedOnly ==
    ~overrideAll =>
        \A c \in CardSet : Qty(entries, c.id) > 0 => c.aspect \in basicsSelected \cup chosenAspects

\* a shared deck was loaded outside override mode and left a card of an
\* unselected aspect counted
C24_LoadedUnselected ==
    /\ lastOp.op = "applyShareCode" /\ lastOp.res = "true"
    /\ ~overrideAll
    /\ \E c \in CardSet : Qty(entries, c.id) > 0 /\ c.aspect \notin basicsSelected \cup chosenAspects

RECURSIVE SumOver(_, _)
SumOver(f, S) ==
    IF S = {} THEN 0
    ELSE LET x == CHOOSE y \in S : TRUE IN f[x] + SumOver(f, S \ {x})

\* C25: when a lowering to n becomes pending, the banner's list holds exactly
\* the cards with a positive quantity and rank > n, each with its id, name,
\* aspect display name, rank, type and quantity; the total shown is the sum
\* of the listed quantities and the sum of the per-type subtotals.
C25_RemovalList ==
    [][\A n \in 1..RANK_MAX :
         (lastOp'.op = "rank" /\ lastOp'.arg = n /\ lastOp'.res = "pending")
         => LET rs == rankPending'.removals IN
            /\ rankPending'.next = n
            /\ \A c \in CardSet :
                  (entries[c.id] > 0 /\ c.rank > n) <=> (\E r \in rs : r.id = c.id)
            /\ \A r \in rs :
                  \E c \in CardSet :
                     /\ r.id = c.id /\ r.name = c.name /\ r.rank = c.rank /\ r.type = c.type
                     /\ r.qty = entries[c.id]
                     /\ \E a \in aspects : a.slug = c.aspect /\ r.aspect = a.name
            /\ Cardinality(rs) = Cardinality({c \in CardSet : entries[c.id] > 0 /\ c.rank > n})
            /\ pendingTotal' = SumOver(entries, {c.id : c \in {x \in CardSet : entries[x.id] > 0 /\ x.rank > n}})
            /\ pendingTotal' = SumOver([t \in SpellTypes |-> pendingByType(t)'], SpellTypes)]_vars

\* a lowering is pending on two cards of different types, three pages in all
C25_TwoListed ==
    /\ lastOp.op = "rank" /\ lastOp.res = "pending"
    /\ Cardinality(rankPending.removals) = 2
    /\ pendingTotal = 3
    /\ \E t \in SpellTypes : pendingByType(t) = 2

\* C26: while overrideAll is true the page budget and the per-type caps do
\* not apply: + adds a copy to any card below its maxCopies, MAX sets a card
\* to its maxCopies and Pick All fills every card of the group.
C26_OverrideNoCaps ==
    [][overrideAll =>
         /\ \A c \in CardSet :
               /\ (lastOp'.op = "inc" /\ lastOp'.arg = c.id /\ entries[c.id] < c.maxCopies)
                    => entries'[c.id] = entries[c.id] + 1
               /\ (lastOp'.op = "max" /\ lastOp'.arg = c.id)
                    => entries'[c.id] = c.maxCopies
         /\ \A s \in Slugs :
               (lastOp'.op = "pickAll" /\ lastOp'.arg = s)
                 => \A c \in CardSet : c.aspect = s => entries'[c.id] = c.maxCopies]_vars

\* in override mode the + button of a card below its maxCopies was refused
\* by the cap of its type
C26_CapInOverride ==
    /\ overrideAll
    /\ lastOp.op = "inc" /\ lastOp.res = "cap"
    /\ \E c \in CardSet : c.id = lastOp.arg /\ entries[c.id] < c.maxCopies /\ counts(c.type) >= TYPE_LIMITS(c.type)

specialRoom(c) ==
    /\ c.type \in {"Astral", "Shadow"}
    /\ entries[c.id] < c.maxCopies
    /\ counts(c.type) < (IF c.type = "Astral" THEN ASTRAL_LIMIT ELSE SHADOW_LIMIT)

countableKept ==
    /\ totalQty' = totalQty
    /\ \A t \in CountableTypes : counts(t)' = counts(t)

\* C27: Astral and Shadow copies stay outside the page budget: with 30 pages
\* in the deck, +, MAX and Pick All still add copies of an Astral / Shadow
\* card that has room, and adding them leaves the page total and the Holy,
\* Light and Dark totals as they were.
C27_SpecialOutsideBudget ==
    [][\A c \in CardSet :
         /\ (lastOp'.op \in {"inc", "max"} /\ lastOp'.arg = c.id /\ c.type \in {"Astral", "Shadow"})
              => countableKept
         /\ (totalQty = PAGE_LIMIT /\ specialRoom(c))
              => /\ (lastOp'.op \in {"inc", "max"} /\ lastOp'.arg = c.id)
                    => entries'[c.id] > entries[c.id]
                 /\ (lastOp'.op = "pickAll" /\ lastOp'.arg = c.aspect)
                    => (entries'[c.id] > entries[c.id] /\ countableKept)]_vars

\* the same for groups made of Astral cards only, or of Shadow cards only
C27_SpecialGroupOutsideBudget ==
    [][\A c \in CardSet :
         (\A o \in CardSet : o.aspect = c.aspect => o.type = c.type)
         => /\ (lastOp'.op \in {"inc", "max"} /\ lastOp'.arg = c.id /\ c.type \in {"Astral", "Shadow"})
                 => countableKept
            /\ (totalQty = PAGE_LIMIT /\ specialRoom(c))
                 => /\ (lastOp'.op \in {"inc", "max"} /\ lastOp'.arg = c.id)
                       => entries'[c.id] > entries[c.id]
                    /\ (lastOp'.op = "pickAll" /\ lastOp'.arg = c.aspect)
                       => (entries'[c.id] > entries[c.id] /\ countableKept)]_vars

\* with 30 pages in the deck, Pick All was refused on a group that holds an
\* Astral card with room
C27_PickAllRefusedAtThirty ==
    /\ lastOp.op = "pickAll" /\ lastOp.res = "disabled"
    /\ totalQty = PAGE_LIMIT
    /\ \E c \in CardSet : c.aspect = lastOp.arg /\ specialRoom(c)

\* with 30 pages in the deck, Pick All filled a group of Astral cards
C27_PickAllAtThirty ==
    /\ lastOp.op = "pickAll" /\ lastOp.res = "ok"
    /\ totalQty = PAGE_LIMIT
    /\ counts("Astral") > 0

\* the cards Pick All on `slug` may fill, and their room below maxCopies
fillable(slug, t) == {c \in availableCards : c.aspect = slug /\ ~locked(c) /\ c.type = t}
roomBelowMax(slug, t) ==
    SumOver([c \in fillable(slug, t) |-> c.maxCopies - entries[c.id]], fillable(slug, t))
\* copies of type t the step has added to the cards of `slug`
addedTo(slug, t) ==
    LET g == {c \in CardSet : c.aspect = slug /\ c.type = t}
    IN SumOver([c \in g |-> entries'[c.id] - entries[c.id]], g)

pickAllExpected(slug) ==
    /\ addedTo(slug, "Holy") + addedTo(slug, "Light") + addedTo(slug, "Dark")
         = Min(PAGE_LIMIT - totalQty,
               SumOver([t \in CountableTypes |->
                           Min(TYPE_LIMITS(t) - counts(t), roomBelowMax(slug, t))],
                       CountableTypes))
    /\ addedTo(slug, "Astral") = Min(ASTRAL_LIMIT - counts("Astral"), roomBelowMax(slug, "Astral"))
    /\ addedTo(slug, "Shadow") = Min(SHADOW_LIMIT - counts("Shadow"), roomBelowMax(slug, "Shadow"))

\* C28: the copies Pick All adds to an aspect amount, for the countable
\* types, to min(30 - pages, sum over types of min(type cap - type total,
\* room of the fillable cards of the type)) and, for Astral (Shadow), to
\* min(7 (3) - current total, room of the fillable cards), whatever the order
\* of the cards.
C28_PickAllTotal ==
    [][\A s \in Slugs :
         (lastOp'.op = "pickAll" /\ lastOp'.arg = s) => pickAllExpected(s)]_vars

\* the same for the groups whose Pick All button is enabled
C28_EnabledPickAllTotal ==
    [][\A s \in Slugs :
         (lastOp'.op = "pickAll" /\ lastOp'.arg = s /\ lastOp'.res = "ok") => pickAllExpected(s)]_vars

\* Pick All added no Astral copy although the formula grants some
C28_AstralNotFilled ==
    /\ lastOp.op = "pickAll"
    /\ \E c \in CardSet :
          /\ c.aspect = lastOp.arg /\ c.type = "Astral" /\ c \in availableCards
          /\ entries[c.id] = 0 /\ c.maxCopies > 0
          /\ counts("Astral") = 0

\* C29: MAX on an unlocked card sets an Astral / Shadow card to exactly its
\* maxCopies whatever the page total, and a countable card to
\* min(maxCopies, qty + min(30 - pages, type cap - type total)), which leaves
\* it as it is when that room is 0; no other card's entry changes.
C29_SetMax ==
    [][\A c \in CardSet :
         (lastOp'.op = "max" /\ lastOp'.arg = c.id /\ ~locked(c))
         => /\ c.type \in {"Astral", "Shadow"} => entries'[c.id] = c.maxCopies
            /\ c.type \in CountableTypes =>
                  LET room == Min(PAGE_LIMIT - totalQty, TYPE_LIMITS(c.type) - counts(c.type))
                  IN /\ entries'[c.id] = Min(c.maxCopies, entries[c.id] + room)
                     /\ room = 0 => entries' = entries
            /\ \A o \in CardSet : o.id # c.id => entries'[o.id] = entries[o.id]]_vars

\* with 30 pages in the deck MAX has set an Astral card to its maxCopies
C29_AstralMaxAtThirty ==
    /\ lastOp.op = "max" /\ lastOp.res = "ok"
    /\ totalQty = PAGE_LIMIT
    /\ \E c \in CardSet : c.id = lastOp.arg /\ c.type = "Astral" /\ entries[c.id] = c.maxCopies

\* MAX on a Holy card stopped below its maxCopies at the Holy cap
C29_ClampedByTypeCap ==
    /\ lastOp.op = "max" /\ lastOp.res = "ok"
    /\ \E c \in CardSet : c.id = lastOp.arg /\ c.type = "Holy" /\ entries[c.id] < c.maxCopies
    /\ counts("Holy") = HOLY_LIMIT

\* C30: a share code that cannot be decoded, or whose version is not 1, is
\* refused and changes nothing; an accepted share code or saved deck that
\* lacks fields is loaded with rankCap = 1, no selections and no entries, so
\* rankCap is an integer of 1..5 after every load.
C30_Rehydrate ==
    [][/\ \A raw \in ForeignCodes :
            (lastOp'.op = "applyShareCode" /\ lastOp'.arg = raw)
            => IF raw = Garbage \/ raw.v # 1
               THEN lastOp'.res = "false" /\ UNCHANGED <<catalogVars, deckVars, uiVars>>
               ELSE /\ lastOp'.res = "true"
                    /\ raw.r = 0 => rankCap' = 1
                    /\ raw.e = << >> => \A id \in CardIds : entries'[id] = 0
                    /\ rankCap' \in 1..RANK_MAX
       /\ \A d \in SavedDecks :
            (lastOp'.op = "loadDeck" /\ lastOp'.arg = d)
            => /\ d.rankCap = 0 => rankCap' = 1
               /\ d.basicsSelected = {} => basicsSelected' = {}
               /\ d.entries = << >> => \A id \in CardIds : entries'[id] = 0
               /\ rankCap' \in 1..RANK_MAX]_vars

\* the same for share codes alone
C30_RehydrateShareCode ==
    [][\A raw \in ForeignCodes :
         (lastOp'.op = "applyShareCode" /\ lastOp'.arg = raw)
         => IF raw = Garbage \/ raw.v # 1
            THEN lastOp'.res = "false" /\ UNCHANGED <<catalogVars, deckVars, uiVars>>
            ELSE /\ lastOp'.res = "true"
                 /\ raw.r = 0 => rankCap' = 1
                 /\ raw.e = << >> => \A id \in CardIds : entries'[id] = 0
                 /\ rankCap' \in 1..RANK_MAX]_vars

\* a saved deck without rankCap was loaded and left rankCap outside 1..5
C30_LoadedWithoutRank ==
    /\ lastOp.op = "loadDeck"
    /\ lastOp.arg.rankCap = 0
    /\ rankCap \notin 1..RANK_MAX

\* C31: in every reachable state basicsSelected holds only aspects that are
\* basic now, chosenAspects only aspects that are not, and the two sets are
\* disjoint.
C31_SelectionPartition ==
    /\ \A s \in basicsSelected : isBasicAspect(s)
    /\ \A s \in chosenAspects : ~isBasicAspect(s)
    /\ basicsSelected \cap chosenAspects = {}

\* after a load, a click on the selected aspect lost has left it in both sets
C31_LostInBoth ==
    /\ lastOp.op = "toggle" /\ lastOp.arg = "lost"
    /\ "lost" \in basicsSelected \cap chosenAspects

withinCaps(e) ==
    /\ totalQtyOf(e) <= PAGE_LIMIT
    /\ \A t \in CountableTypes : countsOf(e, t) <= TYPE_LIMITS(t)

C33_Ephemeral ==
    /\ [](/\ Cardinality(capTimers) <= 1
          /\ capAttempt # NoType => capTimers = {capTimer})
    /\ [][/\ lastOp'.op = "capTimeout" => (capTimers = {capTimer} /\ capAttempt' = NoType /\ capTimers' = {})
          /\ (lastOp'.op \in {"inc", "max"} /\ lastOp'.res = "cap")
               => /\ capAttempt' = CardById(lastOp'.arg).type
                  /\ capTimer' # capTimer
                  /\ capTimers' = {capTimer'}]_vars
    /\ \A h \in 1..2 :
          (capAttempt # NoType /\ capTimer = h) ~> (capAttempt = NoType \/ capTimer # h)

\* the notification is cleared in the end, further attempts or not
C33_AlwaysCleared == (capAttempt # NoType) ~> (capAttempt = NoType)

\* the timeout has cleared a notification
C33_Expired ==
    /\ lastOp.op = "capTimeout"
    /\ capAttempt = NoType /\ capTimers = {}
    /\ capTimer # 0

\* C34: the reset operation returns the deck state to the session-start
\* defaults: rankCap = 1, exactly the default basic aspect selected, no
\* chosen aspects and empty entries.
C34_ResetDefaults ==
    [][lastOp'.op = "resetAll"
         => /\ rankCap' = 1
            /\ basicsSelected' = {"focus"}
            /\ chosenAspects' = {}
            /\ \A id \in CardIds : Qty(entries', id) = 0]_vars

\* a reset has emptied the deck and left the rank cap above 1
C34_ResetKeepsRank ==
    /\ lastOp.op = "resetAll"
    /\ rankCap > 1
    /\ basicsSelected = {"focus"} /\ chosenAspects = {}
    /\ \A id \in CardIds : Qty(entries, id) = 0

\* C35: aspectEligible(slug) is true exactly when the aspect owns at least
\* one card and the least rank among its cards is <= rankCap; an aspect
\* without cards, or a slug in neither table, is not eligible at any cap.
C35_Eligible ==
    lastOp.op = "aspectEligible"
      => LET owned == {c \in CardSet : c.aspect = lastOp.arg} IN
         /\ lastOp.res = "true"
              <=> /\ owned # {}
                  /\ \E c \in owned : /\ \A d \in owned : c.rank <= d.rank
                                      /\ c.rank <= rankCap
         /\ owned = {} => lastOp.res = "false"

\* at the highest cap the aspect without cards was found not eligible
C35_EmptyAtTopRank ==
    /\ lastOp.op = "aspectEligible" /\ lastOp.arg = "empty"
    /\ lastOp.arg \in Slugs
    /\ rankCap = RANK_MAX
    /\ lastOp.res = "false"

\* an aspect was found eligible by its lowest card alone
C35_EligibleByLowest ==
    /\ lastOp.op = "aspectEligible" /\ lastOp.res = "true"
    /\ \E c \in CardSet : c.aspect = lastOp.arg /\ c.rank > rankCap

\* C36: every entry is a non-negative integer in every reachable state; the
\* - control on a card with quantity 0 changes nothing, otherwise it lowers
\* that card's quantity by exactly 1 and changes no other entry; and what the
\* row controls store is never below 0.
C36_NonNegative ==
    /\ [](\A id \in CardIds : entries[id] \in Nat)
    /\ [][/\ lastOp'.op = "dec"
             => LET id == lastOp'.arg IN
                IF entries[id] = 0 THEN UNCHANGED entries
                ELSE entries' = [entries EXCEPT ![id] = entries[id] - 1]
          /\ lastOp'.op \in {"inc", "dec", "max"} => entries'[lastOp'.arg] >= 0]_vars

\* an imported deck has left a negative quantity in the entries
C36_NegativeEntry ==
    /\ lastOp.op = "applyShareCode" /\ lastOp.res = "true"
    /\ \E id \in CardIds : entries[id] < 0

\* the - control took one copy of a card that had several
C36_LoweredByOne ==
    /\ lastOp.op = "dec" /\ lastOp.res = "ok"
    /\ entries[lastOp.arg] >= 1

====
